---- MODULE Spec2Model ----
(***************************************************************************)
(* Model of mcp-gnews-server/main.py: the search_news tool, the request    *)
(* helper make_gnews_request and get_api_key.                              *)
(*                                                                         *)
(* Python values are tagged records: PyNone, PyStr(s), PyInt(n).  A       *)
(* Python text (an error message, a log line, a response body) is a        *)
(* sequence of tokens, and concatenation / f-string interpolation is \o.   *)
(* A dict that the code builds key by key (params) is a sequence of        *)
(* <<key, value>> pairs in insertion order.                                *)
(***************************************************************************)
EXTENDS Integers, Sequences, FiniteSets, TLC

VARIABLES
    GNEWS_API_KEY,  \* os.environ["GNEWS_API_KEY"]: None when unset
    pc,             \* where the current search_news invocation stands
    args,           \* the arguments of the current invocation
    params,         \* the params dict of the current invocation
    log,            \* the records the logger emitted during this invocation
    clientsOpened,  \* httpx.AsyncClient scopes entered by this invocation
    clientsClosed,  \* httpx.AsyncClient scopes left by this invocation
    getCount,       \* client.get calls issued by this invocation
    outcome,        \* what the awaited client.get delivered
    result,         \* the dict search_news returned
    fault           \* the exception that left search_news

vars == <<GNEWS_API_KEY, pc, args, params, log, clientsOpened, clientsClosed,
          getCount, outcome, result, fault>>

(***************************** bounds **************************************)
\* At most this many optional arguments of one call differ from their
\* declared defaults.
MaxNonDefault == 2

(***************************** Python values *******************************)
PyNone == [none |-> TRUE]
PyStr(s) == [str |-> s]
PyInt(n) == [int |-> n]

\* Python truth value of an Optional[str] / Optional[int] argument.
Truthy(v) ==
    IF "none" \in DOMAIN v THEN FALSE
    ELSE IF "str" \in DOMAIN v THEN v.str # ""
    ELSE v.int # 0

\* repr() of a value inside a dict, as one token.
ReprVal(v) ==
    IF "none" \in DOMAIN v THEN "None"
    ELSE IF "str" \in DOMAIN v THEN v.str
    ELSE ToString(v.int)

\* Does the text contain the token?
Contains(text, tok) == \E i \in 1..Len(text) : text[i] = tok

(***************************** dicts ***************************************)
Keys(d) == {d[i][1] : i \in 1..Len(d)}
HasKey(d, k) == k \in Keys(d)
Get(d, k) == d[CHOOSE i \in 1..Len(d) : d[i][1] = k][2]

\* d[k] = v on a dict: replaces the value of an existing key in place,
\* appends a new key at the end.
SetItem(d, k, v) ==
    IF HasKey(d, k)
    THEN [i \in 1..Len(d) |-> IF d[i][1] = k THEN <<k, v>> ELSE d[i]]
    ELSE Append(d, <<k, v>>)

RECURSIVE ReprItems(_)
ReprItems(d) ==
    IF d = <<>> THEN <<>>
    ELSE <<d[1][1], ": ", ReprVal(d[1][2]), ", ">> \o ReprItems(Tail(d))

\* str(dict): every key and every value appears in it.
ReprDict(d) == <<"{">> \o ReprItems(d) \o <<"}">>

(***************************** search_news arguments ***********************)
OptionalArgs ==
    <<"lang", "country", "max_articles", "search_in", "nullable",
      "date_from", "date_to", "sortby", "page">>

\* The defaults declared in the signature of search_news.
DefaultArgs ==
    [lang |-> PyNone, country |-> PyNone, max_articles |-> PyInt(10),
     search_in |-> PyNone, nullable |-> PyNone, date_from |-> PyNone,
     date_to |-> PyNone, sortby |-> PyStr("publishedAt"), page |-> PyInt(1)]

\* The upstream key each optional argument is sent under.
ParamName ==
    [lang |-> "lang", country |-> "country", max_articles |-> "max",
     search_in |-> "in", nullable |-> "nullable", date_from |-> "from",
     date_to |-> "to", sortby |-> "sortby", page |-> "page"]

Queries == {PyStr("bitcoin"), PyStr("AI AND ethics")}

\* The values a caller can pass for each optional argument.
ArgValues ==
    [lang |-> {PyNone, PyStr(""), PyStr("en")},
     country |-> {PyNone, PyStr(""), PyStr("us")},
     max_articles |-> {PyNone, PyInt(0), PyInt(5), PyInt(10)},
     search_in |-> {PyNone, PyStr(""), PyStr("title")},
     nullable |-> {PyNone, PyStr(""), PyStr("image")},
     date_from |-> {PyNone, PyStr(""), PyStr("2024-01-01T00:00:00Z")},
     date_to |-> {PyNone, PyStr(""), PyStr("2024-12-31T00:00:00Z")},
     sortby |-> {PyNone, PyStr("publishedAt"), PyStr("relevance")},
     page |-> {PyNone, PyInt(0), PyInt(1), PyInt(2)}]

NonDefault(a) ==
    {i \in 1..Len(OptionalArgs) : a[OptionalArgs[i]] # DefaultArgs[OptionalArgs[i]]}

Calls ==
    {a \in [q : Queries,
            lang : ArgValues.lang, country : ArgValues.country,
            max_articles : ArgValues.max_articles,
            search_in : ArgValues.search_in, nullable : ArgValues.nullable,
            date_from : ArgValues.date_from, date_to : ArgValues.date_to,
            sortby : ArgValues.sortby, page : ArgValues.page] :
        Cardinality(NonDefault(a)) <= MaxNonDefault}

\* One "if <arg>: params[<key>] = <arg>" statement.
IfSet(p, a, name) ==
    IF Truthy(a[name]) THEN SetItem(p, ParamName[name], a[name]) ELSE p

\* The mutant: the argument's own name is used as the upstream key.
BuildParamsUnmapped(a) ==
    LET p0 == <<<<"q", a.q>>>>
        Put(p, name) == IF Truthy(a[name]) THEN SetItem(p, name, a[name]) ELSE p
        p1 == Put(p0, "lang")
        p2 == Put(p1, "country")
        p3 == Put(p2, "max_articles")
        p4 == Put(p3, "search_in")
        p5 == Put(p4, "nullable")
        p6 == Put(p5, "date_from")
        p7 == Put(p6, "date_to")
        p8 == Put(p7, "sortby")
    IN  Put(p8, "page")

\* "Build request parameters" in search_news.
BuildParams(a) ==
    LET p0 == <<<<"q", a.q>>>>
        p1 == IfSet(p0, a, "lang")
        p2 == IfSet(p1, a, "country")
        p3 == IfSet(p2, a, "max_articles")
        p4 == IfSet(p3, a, "search_in")
        p5 == IfSet(p4, a, "nullable")
        p6 == IfSet(p5, a, "date_from")
        p7 == IfSet(p6, a, "date_to")
        p8 == IfSet(p7, a, "sortby")
    IN  IfSet(p8, a, "page")

(***************************** exceptions **********************************)
Exc(kind, msg) == [kind |-> kind, msg |-> msg]

\* The failures of client.get that httpx raises as subclasses of
\* httpx.RequestError.
RequestErrorKinds == {"ConnectError", "ConnectTimeout", "ReadTimeout"}

\* "except httpx.RequestError" in make_gnews_request.
IsRequestError(e) == e.kind \in RequestErrorKinds

\* The mutant: the handler catches only what make_gnews_request raises
\* itself.
IsExceptionOwnOnly(e) == e.kind = "Exception"

\* "except Exception" in search_news: asyncio.CancelledError derives from
\* BaseException, every other kind raised here derives from Exception.
IsException(e) == e.kind # "CancelledError"

(***************************** get_api_key *********************************)
Returned(v) == [raised |-> FALSE, value |-> v]
Raised(e) == [raised |-> TRUE, exc |-> e]

\* The mutant: only an unset variable is rejected.
get_api_key_unset_only(env) ==
    IF env = PyNone
    THEN Raised(Exc("ValueError", <<"Missing GNEWS_API_KEY environment variable.">>))
    ELSE Returned(env)

get_api_key(env) ==
    IF ~Truthy(env)
    THEN Raised(Exc("ValueError", <<"Missing GNEWS_API_KEY environment variable.">>))
    ELSE Returned(env)

(***************************** upstream responses **************************)
\* A response body is its text and what response.json() makes of it:
\* [invalid] when the text is no JSON, else an object, array, string,
\* number or null.
NotJson == [invalid |-> TRUE]
JObj(f) == [obj |-> f]
JArr(s) == [arr |-> s]
JStr(s) == [jstr |-> s]
JNum(n) == [num |-> n]
JNull == [null |-> TRUE]

Body(text, json) == [text |-> <<text>>, json |-> json]

EmptyObject == [k \in {} |-> 0]

Bodies ==
    {Body("<html>Service unavailable</html>", NotJson),
     Body("{'totalArticles': 2, 'articles': [A, B]}",
          JObj([totalArticles |-> 2, articles |-> <<"A", "B">>])),
     Body("{'articles': [B, A, C]}", JObj([articles |-> <<"B", "A", "C">>])),
     Body("{'totalArticles': 7}", JObj([totalArticles |-> 7])),
     Body("{}", JObj(EmptyObject)),
     Body("{'errors': ['Invalid API key']}",
          JObj([errors |-> <<"Invalid API key">>])),
     Body("{'message': 'Internal error'}",
          JObj([message |-> <<"Internal error">>])),
     Body("['errors']", JArr(<<"errors">>)),
     Body("[]", JArr(<<>>)),
     Body("'errors'", JStr(<<"errors">>)),
     Body("42", JNum(42)),
     Body("null", JNull)}

ErrorStatuses == {403, 500}

\* What the awaited client.get can deliver.
NetworkFailures ==
    {Exc("ConnectError", <<"All connection attempts failed">>),
     Exc("ConnectTimeout", <<"">>),
     Exc("ReadTimeout", <<"">>)}

IsObject(j) == "obj" \in DOMAIN j

TypeName(j) ==
    IF "arr" \in DOMAIN j THEN "list"
    ELSE IF "jstr" \in DOMAIN j THEN "str"
    ELSE IF "num" \in DOMAIN j THEN "int"
    ELSE "NoneType"

\* dict.get(key, default)
DictGet(d, k, default) == IF k \in DOMAIN d THEN d[k] ELSE default

\* str() of a JSON list of strings.
ReprList(l) == <<"[">> \o l \o <<"]">>

(***************************** make_gnews_request **************************)
LogRecord(level, msg) == [level |-> level, msg |-> msg]

\* The info record written before the GET.
RequestLog(endpoint, p) ==
    LogRecord("INFO", <<"Making request to ", endpoint, " with params: ">> \o ReprDict(p))

\* The mutant: a network failure is worded like an HTTP-status failure.
NetworkErrorMsgAsApiError(e) == <<"GNews API error: ">> \o e.msg

\* error_msg of the "except httpx.RequestError" handler.
NetworkErrorMsg(e) == <<"Network error connecting to GNews API: ">> \o e.msg

\* What the try/except around response.json() appends to error_msg on a
\* non-200 response.
ErrorDetail(body) ==
    LET j == body.json
        raw == <<" - ">> \o body.text
    IN  IF "invalid" \in DOMAIN j THEN raw              \* json() raises
        ELSE IF IsObject(j)
             THEN IF "errors" \in DOMAIN j.obj
                  THEN <<" - ">> \o ReprList(j.obj.errors)
                  ELSE <<>>
        ELSE IF "arr" \in DOMAIN j
             THEN IF Contains(j.arr, "errors") THEN raw  \* list["errors"]: TypeError
                  ELSE <<>>
        ELSE IF "jstr" \in DOMAIN j
             THEN IF Contains(j.jstr, "errors") THEN raw \* str["errors"]: TypeError
                  ELSE <<>>
        ELSE raw                                         \* "errors" in 42: TypeError

ApiErrorMsg(status, body) ==
    <<"GNews API error: ", ToString(status)>> \o ErrorDetail(body)

\* make_gnews_request from the completion of "await client.get" on: what it
\* returns or raises, and what it logs on the way.
\* d is [exc |-> e] when client.get raised, [status, body] when it returned.
AfterGet(d) ==
    IF "exc" \in DOMAIN d
    THEN IF IsRequestError(d.exc)
         THEN [raised |-> TRUE,
               exc |-> Exc("Exception", NetworkErrorMsg(d.exc)),
               logged |-> <<LogRecord("ERROR", NetworkErrorMsg(d.exc))>>]
         ELSE [raised |-> TRUE, exc |-> d.exc, logged |-> <<>>]
    ELSE IF d.status = 200
    THEN IF "invalid" \in DOMAIN d.body.json
         THEN [raised |-> TRUE,
               exc |-> Exc("JSONDecodeError",
                           <<"Expecting value: line 1 column 1 (char 0)">>),
               logged |-> <<>>]
         ELSE IF ~IsObject(d.body.json)
         THEN [raised |-> TRUE,
               exc |-> Exc("AttributeError",
                           <<"'", TypeName(d.body.json),
                             "' object has no attribute 'get'">>),
               logged |-> <<>>]
         ELSE [raised |-> FALSE, value |-> d.body.json.obj,
               logged |-> <<LogRecord("INFO",
                    <<"Successfully retrieved ",
                      ToString(DictGet(d.body.json.obj, "totalArticles", 0)),
                      " articles">>)>>]
    ELSE [raised |-> TRUE,
          exc |-> Exc("Exception", ApiErrorMsg(d.status, d.body)),
          logged |-> <<LogRecord("ERROR", ApiErrorMsg(d.status, d.body))>>]

(***************************** search_news *********************************)
\* The mutant: the article list is rebuilt back to front and the count is
\* taken from it.
SuccessResultRecount(q, data, p) ==
    LET arts == DictGet(data, "articles", <<>>)
    IN  [success |-> TRUE, query |-> q,
         totalArticles |-> Len(arts),
         articles |-> [i \in 1..Len(arts) |-> arts[Len(arts) + 1 - i]],
         parameters_used |-> p]

SuccessResult(q, data, p) ==
    [success |-> TRUE, query |-> q,
     totalArticles |-> DictGet(data, "totalArticles", 0),
     articles |-> DictGet(data, "articles", <<>>),
     parameters_used |-> p]

FailureResult(q, e, p) ==
    [success |-> FALSE, error |-> e.msg, query |-> q, parameters_used |-> p]

NoDelivery == [type |-> "none"]

Init ==
    /\ GNEWS_API_KEY \in {PyNone, PyStr(""), PyStr("SECRET-KEY")}
    /\ pc = "idle"
    /\ args = PyNone
    /\ params = <<>>
    /\ log = <<>>
    /\ clientsOpened = 0
    /\ clientsClosed = 0
    /\ getCount = 0
    /\ outcome = NoDelivery
    /\ result = PyNone
    /\ fault = PyNone

\* The host calls the tool: search_news runs up to "await client.get", or
\* to its return when get_api_key raises.
SearchNewsCall ==
    /\ pc = "idle"
    /\ \E a \in Calls :
        LET p == BuildParams(a)
            key == get_api_key(GNEWS_API_KEY)
        IN  /\ args' = a
            /\ outcome' = NoDelivery
            /\ clientsClosed' = 0
            /\ IF key.raised
               THEN /\ params' = p
                    /\ IF IsException(key.exc)
                       THEN /\ result' = FailureResult(a.q, key.exc, p)
                            /\ pc' = "returned"
                            /\ fault' = PyNone
                       ELSE /\ result' = PyNone
                            /\ pc' = "raised"
                            /\ fault' = key.exc
                    /\ log' = <<>>
                    /\ clientsOpened' = 0
                    /\ getCount' = 0
               ELSE /\ params' = SetItem(p, "apikey", key.value)
                    /\ result' = PyNone
                    /\ fault' = PyNone
                    /\ pc' = "awaiting"
                    /\ log' = <<RequestLog("search", params')>>
                    /\ clientsOpened' = 1
                    /\ getCount' = 1
    /\ UNCHANGED GNEWS_API_KEY

\* The rest of the invocation once client.get has delivered d: the client
\* scope is left, make_gnews_request returns or raises, search_news
\* returns a dict or lets the exception out.
Complete(d) ==
    LET r == AfterGet(d)
    IN  /\ clientsClosed' = clientsOpened
        /\ log' = log \o r.logged
        /\ IF ~r.raised
           THEN /\ result' = SuccessResult(args.q, r.value, params)
                /\ pc' = "returned"
                /\ fault' = PyNone
           ELSE IF IsException(r.exc)
           THEN /\ result' = FailureResult(args.q, r.exc, params)
                /\ pc' = "returned"
                /\ fault' = PyNone
           ELSE /\ result' = PyNone
                /\ pc' = "raised"
                /\ fault' = r.exc
        /\ UNCHANGED <<GNEWS_API_KEY, args, params, clientsOpened, getCount>>

\* Upstream answers 200.
Respond200 ==
    /\ pc = "awaiting"
    /\ \E b \in Bodies :
        /\ outcome' = [type |-> "response", status |-> 200, body |-> b]
        /\ Complete([status |-> 200, body |-> b])

\* Upstream answers with another status.
RespondError ==
    /\ pc = "awaiting"
    /\ \E s \in ErrorStatuses, b \in Bodies :
        /\ outcome' = [type |-> "response", status |-> s, body |-> b]
        /\ Complete([status |-> s, body |-> b])

\* The mutant: the GET is issued once more after a network failure.
NetworkFailureRetry ==
    /\ pc = "awaiting"
    /\ \E e \in NetworkFailures :
        IF getCount < 2
        THEN /\ getCount' = getCount + 1
             /\ UNCHANGED <<GNEWS_API_KEY, pc, args, params, log, clientsOpened,
                            clientsClosed, outcome, result, fault>>
        ELSE /\ outcome' = [type |-> "network", exc |-> e]
             /\ Complete([exc |-> e])

\* client.get fails at the network level.
NetworkFailure ==
    /\ pc = "awaiting"
    /\ \E e \in NetworkFailures :
        /\ outcome' = [type |-> "network", exc |-> e]
        /\ Complete([exc |-> e])

\* The host cancels the task while it awaits client.get.
Cancel ==
    /\ pc = "awaiting"
    /\ outcome' = [type |-> "cancelled"]
    /\ Complete([exc |-> Exc("CancelledError", <<"">>)])

\* The server loop of mcp.run takes the outcome of the invocation (the
\* returned dict or the exception); the invocation's params, result and
\* counters are discarded and the next call can be served.
ServeNext ==
    /\ pc \in {"returned", "raised"}
    /\ pc' = "idle"
    /\ args' = PyNone
    /\ params' = <<>>
    /\ log' = <<>>
    /\ clientsOpened' = 0
    /\ clientsClosed' = 0
    /\ getCount' = 0
    /\ outcome' = NoDelivery
    /\ result' = PyNone
    /\ fault' = PyNone
    /\ UNCHANGED GNEWS_API_KEY

Next ==
    \/ SearchNewsCall
    \/ ServeNext
    \/ Respond200
    \/ RespondError
    \/ NetworkFailure
    \/ Cancel

Spec == Init /\ [][Next]_vars

(***************************** properties **********************************)
Done == pc \in {"returned", "raised"}
KeyPresent == Truthy(GNEWS_API_KEY)
Sent == getCount >= 1
GotResponse == outcome.type = "response"
OnlyQuerySet(a) ==
    \A i \in 1..Len(OptionalArgs) : a[OptionalArgs[i]] = DefaultArgs[OptionalArgs[i]]

\* The outcomes of a call that are not a success: no credential, a network
\* failure, a cancellation, a non-200 status, a 200 whose body is no JSON
\* object.
NonSuccessOutcome ==
    \/ ~KeyPresent
    \/ outcome.type \in {"network", "cancelled"}
    \/ /\ GotResponse
       /\ outcome.status # 200 \/ ~IsObject(outcome.body.json)

WellFormed(r) == "success" \in DOMAIN r /\ r.success \in BOOLEAN

FailureShaped(r) ==
    /\ DOMAIN r = {"success", "error", "query", "parameters_used"}
    /\ r.success = FALSE
    /\ r.query = args.q
    /\ r.parameters_used = params

\* C1: no result returned by search_news carries the API key in
\* parameters_used, neither as the apikey entry nor as a value.
C1_KeyNeverInParametersUsed ==
    pc = "returned" =>
        \A i \in 1..Len(result.parameters_used) :
            /\ result.parameters_used[i][1] # "apikey"
            /\ KeyPresent => result.parameters_used[i][2] # GNEWS_API_KEY

\* C2 as stated: every finished invocation, a cancelled one included, has
\* returned a result with a boolean success flag, and a failure-shaped one
\* whenever the outcome is not a success.
C2_AlwaysReturnsResult ==
    Done =>
        /\ pc = "returned"
        /\ WellFormed(result)
        /\ NonSuccessOutcome => FailureShaped(result)

\* C2 amended: every finished invocation that was not cancelled has returned
\* a result with a boolean success flag, failure-shaped whenever the outcome
\* is not a success; a cancelled invocation returns nothing and lets
\* CancelledError out.
C2_ReturnsUnlessCancelled ==
    Done =>
        IF outcome.type = "cancelled"
        THEN pc = "raised" /\ fault.kind = "CancelledError" /\ result = PyNone
        ELSE /\ pc = "returned"
             /\ fault = PyNone
             /\ WellFormed(result)
             /\ NonSuccessOutcome => FailureShaped(result)

C2_MalformedBodyReturned ==
    /\ pc = "returned"
    /\ GotResponse
    /\ outcome.status = 200
    /\ ~IsObject(outcome.body.json)
    /\ FailureShaped(result)

C4_SetArgumentsAreSent ==
    Sent =>
        \A i \in 1..Len(OptionalArgs) :
            LET name == OptionalArgs[i]
            IN  IF args[name] = PyNone
                THEN ~HasKey(params, ParamName[name])
                ELSE /\ HasKey(params, ParamName[name])
                     /\ Get(params, ParamName[name]) = args[name]

\* C5: with GNEWS_API_KEY unset or empty the invocation never reaches the
\* transport (no client opened, no GET) and returns the failure result with
\* the missing-variable message.
C5_MissingKeyFailsBeforeNetwork ==
    ~KeyPresent =>
        /\ pc \in {"idle", "returned"}
        /\ clientsOpened = 0
        /\ getCount = 0
        /\ pc = "returned" =>
            /\ FailureShaped(result)
            /\ result.error = <<"Missing GNEWS_API_KEY environment variable.">>

C5_EmptyKeyRejected ==
    /\ pc = "returned"
    /\ GNEWS_API_KEY = PyStr("")
    /\ result.success = FALSE
    /\ getCount = 0

\* C6: on a non-200 response the error is "GNews API error: <status> -
\* <detail>", the detail being the errors payload when the body is an object
\* with one and the raw response text in every other case.
C6_ErrorHasStatusAndDetail ==
    (pc = "returned" /\ GotResponse /\ outcome.status # 200) =>
        LET j == outcome.body.json
        IN  /\ result.success = FALSE
            /\ result.error =
                   <<"GNews API error: ", ToString(outcome.status), " - ">>
                   \o (IF IsObject(j) /\ "errors" \in DOMAIN j.obj
                       THEN ReprList(j.obj.errors)
                       ELSE outcome.body.text)

\* C7: a network failure yields success = false and an error that is the
\* network prefix followed by the failure's description; an HTTP-status
\* failure never starts with the network prefix and a network failure never
\* starts with the API-error prefix.
C7_NetworkErrorWording ==
    pc = "returned" =>
        /\ outcome.type = "network" =>
            /\ result.success = FALSE
            /\ result.error =
                   <<"Network error connecting to GNews API: ">> \o outcome.exc.msg
            /\ Head(result.error) # "GNews API error: "
        /\ (GotResponse /\ outcome.status # 200) =>
            /\ result.success = FALSE
            /\ Head(result.error) = "GNews API error: "
            /\ Head(result.error) # "Network error connecting to GNews API: "

C7_ConnectionRefusedReported ==
    /\ pc = "returned"
    /\ outcome.type = "network"
    /\ outcome.exc.kind = "ConnectError"
    /\ result.success = FALSE

\* C8: a 200 response whose body is a JSON object yields success = true,
\* the caller's q, the body's totalArticles (0 when absent) and the body's
\* articles in order (empty when absent).
C8_SuccessEchoesBody ==
    (pc = "returned" /\ GotResponse /\ outcome.status = 200
        /\ IsObject(outcome.body.json)) =>
        LET o == outcome.body.json.obj
        IN  /\ result.success = TRUE
            /\ result.query = args.q
            /\ result.totalArticles =
                   (IF "totalArticles" \in DOMAIN o THEN o.totalArticles ELSE 0)
            /\ result.articles =
                   (IF "articles" \in DOMAIN o THEN o.articles ELSE <<>>)

C8_TwoArticlesReturned ==
    /\ pc = "returned"
    /\ result.success = TRUE
    /\ result.totalArticles = 2
    /\ result.articles = <<"A", "B">>

\* C9 as stated: every finished invocation has issued exactly one GET.
C9_ExactlyOneGet ==
    Done => getCount = 1

\* C9 amended: an invocation issues at most one GET, exactly one when the
\* credential is present and none when it is missing; nothing is returned
\* while the GET is awaited, and no failure outcome adds a second GET.
C9_AtMostOneGetNoRetry ==
    /\ getCount <= 1
    /\ pc = "awaiting" => getCount = 1 /\ result = PyNone
    /\ Done => getCount = (IF KeyPresent THEN 1 ELSE 0)

C9_FailureAfterOneGet ==
    /\ pc = "returned"
    /\ outcome.type \in {"network", "response"}
    /\ result.success = FALSE
    /\ getCount = 1

\* C10: no record emitted through the logger contains the value of the API
\* key.
C10_KeyNeverLogged ==
    KeyPresent =>
        \A i \in 1..Len(log) : ~Contains(log[i].msg, ReprVal(GNEWS_API_KEY))

====
